---- MODULE Spec2Model ----
(***************************************************************************)
(* Incident auto-responder: hybrid search (app/search.py), plan builder    *)
(* (app/agent.py), the request handlers of app/server.py and the durable   *)
(* store behind app/db.py.                                                 *)
(*                                                                         *)
(* Conventions                                                             *)
(*   - Python None is None where a string may stand, PyNone elsewhere.     *)
(*   - Strings that the code trims, lower-cases or matches are sequences   *)
(*     of one-character strings over a small alphabet.                     *)
(*   - A confidence is an integer number of hundredths (0.65 is 65).       *)
(*   - An embedding is a direction, a multiple of 90 degrees; the cosine   *)
(*     distance between two directions is tabulated in hundredths.         *)
(*   - AUTO_INCREMENT ids are positions in the table's sequence of rows    *)
(*     (no statement of the program deletes a row).                        *)
(***************************************************************************)
EXTENDS Integers, Sequences, FiniteSets, TLC

VARIABLES
    chunks,       \* table chunks: rows [text, metadata, embedding], embedding
                  \* the set of the chunk's rows in table embeddings (0 or 1)
    incidents,    \* table incidents: rows [source, raw_input, extracted_text]
    runs,         \* table runs
    last,         \* the last request served: its inputs, outcome and calls
    lastSearch    \* the last call of POST /search since the corpus changed

vars == <<chunks, incidents, runs, last, lastSearch>>

\* Values that stand where a string may stand are sequences too; no string of
\* the alphabet equals them.
None == <<"None">>
Absent == <<"Absent">>       \* a key that a JSON object / dict does not hold
JsonNull == <<"JsonNull">>   \* the JSON literal null stored in a JSON column

\* A Python value that may be None: what exec_sql returns.
PyNone == [tag |-> "None"]

PyVal(x) == [tag |-> "val", val |-> x]

(***************************************************************************)
(* Bounds of the model                                                     *)
(***************************************************************************)
MaxChunks == 2      \* rows of chunks JOIN embeddings
MaxTopK == 2        \* largest top_k a search is asked for
MaxRuns == 2        \* rows of table runs
MaxIncidents == 2   \* rows of table incidents

(***************************************************************************)
(* Strings                                                                 *)
(***************************************************************************)
LowerChar(c) ==
    CASE c = "A" -> "a" [] c = "B" -> "b" [] c = "E" -> "e" [] OTHER -> c

\* str.lower() / SQL LOWER()
Lower(s) == [i \in 1..Len(s) |-> LowerChar(s[i])]

RECURSIVE lstrip(_)
lstrip(s) == IF s # <<>> /\ Head(s) = " " THEN lstrip(Tail(s)) ELSE s

RECURSIVE rstrip(_)
rstrip(s) ==
    IF s # <<>> /\ s[Len(s)] = " " THEN rstrip(SubSeq(s, 1, Len(s) - 1)) ELSE s

\* str.strip()
strip(s) == rstrip(lstrip(s))

\* k occurs in t as a contiguous substring
IsSubstring(k, t) ==
    \E i \in 0..(Len(t) - Len(k)) : SubSeq(t, i + 1, i + Len(k)) = k

\* One position of a LIKE pattern against one character: "_" matches any.
LikeChar(p, c) == p = "_" \/ p = c

\* SQL: t LIKE '%' || k || '%', with the wildcard "_" of LIKE kept in k.
LikeContains(t, k) ==
    \E i \in 0..(Len(t) - Len(k)) :
        \A j \in 1..Len(k) : LikeChar(k[j], t[i + j])

(***************************************************************************)
(* Embeddings and cosine distance                                          *)
(***************************************************************************)
Directions == 0..3

CosineTimes100 == <<100, 0, -100, 0>>

\* VEC_COSINE_DISTANCE(e.embedding, query) = 1 - cos(angle between them)
VEC_COSINE_DISTANCE(e, q) == 100 - CosineTimes100[((e - q + 4) % 4) + 1]

(***************************************************************************)
(* Filters                                                                 *)
(***************************************************************************)
FilterKeys == {"service", "error_code", "env", "keyword"}

NoFilters == [k \in FilterKeys |-> None]

\* _clean_filters: known keys only, str values stripped, falsy values dropped.
\* The result maps a dropped key to None (the dict does not hold it).
\* A request without filters (None or {}) is the mapping NoFilters.
_clean_filters(src) ==
    [k \in FilterKeys |->
        IF src[k] = None THEN None
        ELSE IF strip(src[k]) = <<>> THEN None ELSE strip(src[k])]

\* JSON_UNQUOTE(JSON_EXTRACT(t.metadata, '$.key')): SQL NULL (None) when the key
\* is missing, the text null when the JSON value is the literal null.
JsonUnquoteExtract(metadata, key) ==
    IF metadata[key] = Absent THEN None
    ELSE IF metadata[key] = JsonNull THEN <<"n", "u", "l", "l">>
    ELSE metadata[key]

\* LOWER(JSON_UNQUOTE(JSON_EXTRACT(t.metadata, '$.key'))) = LOWER(%s);
\* a comparison with SQL NULL is not true.
MetaEquals(metadata, key, value) ==
    /\ JsonUnquoteExtract(metadata, key) # None
    /\ Lower(JsonUnquoteExtract(metadata, key)) = Lower(value)

\* The WHERE clause built from the cleaned filters (where_sql).
WhereSql(flt, row) ==
    /\ flt["service"] # None => MetaEquals(row.metadata, "service", flt["service"])
    /\ flt["error_code"] # None =>
           MetaEquals(row.metadata, "error_code", flt["error_code"])
    /\ flt["env"] # None => MetaEquals(row.metadata, "env", flt["env"])
    /\ flt["keyword"] # None =>
           LikeContains(Lower(row.text), Lower(flt["keyword"]))

(***************************************************************************)
(* The SQL statement of hybrid_search                                      *)
(***************************************************************************)
Max(a, b) == IF a >= b THEN a ELSE b

Min(a, b) == IF a <= b THEN a ELSE b

\* knn_buffer = max(int(top_k or 5), 50)
KnnFloor == 50

knn_buffer(top_k) == Max(IF top_k = 0 THEN 5 ELSE top_k, KnnFloor)

\* The rows of embeddings e JOIN chunks c ON c.id = e.chunk_id, each with its
\* score; a chunk without an embedding row is not in the join.
JoinRows(cs, emb) ==
    UNION {{[chunk_id |-> i, text |-> cs[i].text, metadata |-> cs[i].metadata,
              score |-> VEC_COSINE_DISTANCE(e, emb)] : e \in cs[i].embedding}
           : i \in 1..Len(cs)}

\* ORDER BY score: ascending; rows of equal score in chunk_id order.
Before(a, b) ==
    a.score < b.score \/ (a.score = b.score /\ a.chunk_id < b.chunk_id)

RECURSIVE OrderByScore(_)
OrderByScore(S) ==
    IF S = {} THEN <<>>
    ELSE LET m == CHOOSE x \in S : \A y \in S \ {x} : Before(x, y)
         IN  <<m>> \o OrderByScore(S \ {m})

\* LIMIT n
Limit(rows, n) == SubSeq(rows, 1, Min(n, Len(rows)))

\* SELECT ... ORDER BY VEC_COSINE_DISTANCE(...) LIMIT knn_buffer (the subquery t)
KnnSubquery(cs, emb, top_k) == Limit(OrderByScore(JoinRows(cs, emb)), knn_buffer(top_k))

SeqToSet(s) == {s[i] : i \in 1..Len(s)}

\* SELECT * FROM (subquery) t WHERE ... ORDER BY score LIMIT top_k: the rows
\* the statement selects in the database.
SelectedRows(cs, emb, top_k, flt) ==
    LET t == SeqToSet(KnnSubquery(cs, emb, top_k))
    IN  Limit(OrderByScore({r \in t : WhereSql(flt, r)}), top_k)

(***************************************************************************)
(* app/db.py                                                               *)
(***************************************************************************)
\* An exec_sql that hands back the rows of a statement that asks for no id.
exec_sql_fetching(selected, last_id, return_last_id) ==
    IF return_last_id THEN PyVal(last_id) ELSE PyVal(selected)

\* exec_sql(sql, params, return_last_id): runs the statement and commits; it
\* returns cur.lastrowid when return_last_id is set and otherwise falls off its
\* end, so it returns None: the rows a SELECT produced (selected) are never
\* fetched.
exec_sql(selected, last_id, return_last_id) ==
    IF return_last_id THEN PyVal(last_id) ELSE PyNone

\* query_all(sql, params): cur.fetchall()
query_all(selected) == PyVal(selected)

\* Python "x or []" for a value that is None or a list
OrEmptyList(v) == IF v = PyNone THEN <<>> ELSE v.val

(***************************************************************************)
(* app/search.py                                                           *)
(***************************************************************************)
\* The Embedder's answer to client.embeddings.create: a vector, or the call
\* raises.
EmbedRaises == [ok |-> FALSE]

Embedded(d) == [ok |-> TRUE, vec |-> d]

\* EMBED_DIM = int(os.getenv("EMBED_DIM", "1536")), the default: the length
\* embed_texts requires of every vector it hands to upsert_embedding.
EMBED_DIM == 1536

\* An answer of the Embedder that is a vector of n numbers.
EmbeddedOfLen(d, n) == [ok |-> TRUE, vec |-> d, len |-> n]

\* dim = len(emb)
VectorLen(embed) == IF "len" \in DOMAIN embed THEN embed.len ELSE EMBED_DIM

\* The database rejects the statement when VEC_COSINE_DISTANCE has to compare
\* a stored vector with a query vector of another length; over an empty join
\* the function is never evaluated.
StatementRaises(cs, embed) ==
    VectorLen(embed) # EMBED_DIM /\ JoinRows(cs, embed.vec) # {}

\* One row as the dict hybrid_search appends to out.
RowToHit(r) ==
    [chunk_id |-> r.chunk_id, text |-> r.text, metadata |-> r.metadata,
     score |-> r.score]

\* A search that fetches every row of the join, farthest first: no WHERE, no
\* ascending ORDER BY, no LIMIT.
hybrid_search_unranked(cs, embed, top_k, filters) ==
    IF ~embed.ok
    THEN [raised |-> TRUE, hits |-> <<>>]
    ELSE [raised |-> FALSE,
          hits |-> [i \in 1..Cardinality(JoinRows(cs, embed.vec)) |->
                       RowToHit(OrderByScore(JoinRows(cs, embed.vec))[
                           Cardinality(JoinRows(cs, embed.vec)) + 1 - i])]]

\* A search that fetches the top_k nearest rows whatever the filters are.
hybrid_search_unfiltered(cs, embed, top_k, filters) ==
    IF ~embed.ok
    THEN [raised |-> TRUE, hits |-> <<>>]
    ELSE [raised |-> FALSE,
          hits |-> [i \in 1..Min(top_k, Cardinality(JoinRows(cs, embed.vec))) |->
                       RowToHit(KnnSubquery(cs, embed.vec, top_k)[i])]]

\* hybrid_search(query_text, top_k, filters), given the Embedder's answer for
\* query_text: [raised, hits].
hybrid_search(cs, embed, top_k, filters) ==
    IF ~embed.ok
    THEN [raised |-> TRUE, hits |-> <<>>]
    \* no check of dim: the statement is sent whatever len(emb) is
    ELSE IF StatementRaises(cs, embed)
    THEN [raised |-> TRUE, hits |-> <<>>]
    ELSE LET flt == _clean_filters(filters)
             rows == OrEmptyList(
                         exec_sql(SelectedRows(cs, embed.vec, top_k, flt), 0, FALSE))
         IN  [raised |-> FALSE,
              hits |-> [i \in 1..Len(rows) |-> RowToHit(rows[i])]]

(***************************************************************************)
(* JSON values the Planner and the Classifier answer with                  *)
(***************************************************************************)
\* A JSON value by its type: [t |-> "absent"] is a key the object lacks.
JAbsent == [t |-> "absent"]

JNull == [t |-> "null"]

JNum(n) == [t |-> "num", v |-> n]

JStr(x) == [t |-> "str", v |-> x]

JList(x) == [t |-> "list", v |-> x]

\* The object under the key "plan": its steps and risks, each a JSON value.
JPlan(steps, risks) == [t |-> "dict", steps |-> steps, risks |-> risks]

\* Python truthiness of a JSON value (used by "x or y" and "not x").
Truthy(j) ==
    CASE j.t = "absent" -> FALSE
      [] j.t = "null" -> FALSE
      [] j.t = "num" -> j.v # 0
      [] j.t = "str" -> j.v # ""
      [] j.t = "list" -> j.v # <<>>
      [] OTHER -> TRUE

\* What client.chat.completions.create gives back: the call raises, or the
\* message content is text json.loads rejects, or it is a JSON value: an
\* object with the keys plan, confidence and sources, or something else.
LlmRaises == [kind |-> "raise"]

LlmText == [kind |-> "text"]

LlmArray == [kind |-> "array"]

LlmObject(plan, confidence, sources) ==
    [kind |-> "object", plan |-> plan, confidence |-> confidence,
     sources |-> sources]

(***************************************************************************)
(* app/agent.py                                                            *)
(***************************************************************************)
GenericStep == "Review top results and apply known fix"

FallbackConfidence == 50

\* A slice that stops one id short of src_ids[:top_k].
TruncateBelow(ids, top_k) == SubSeq(ids, 1, Min(top_k, Len(ids)) - 1)

\* src_ids[:top_k]
Truncate(ids, top_k) == SubSeq(ids, 1, Min(top_k, Len(ids)))

\* js after json.loads(raw) and its except branch: the parsed value, or the
\* fallback dict when json.loads raised.
ParsedOrFallback(answer, src_ids, top_k) ==
    IF answer.kind = "text"
    THEN LlmObject(JPlan(JList(<<GenericStep>>), JList(<<>>)),
                   JNum(FallbackConfidence), JList(Truncate(src_ids, top_k)))
    ELSE answer

\* (js.get("plan") or {}).get(key, []) for key in {steps, risks}
PlanField(plan, key) ==
    IF ~Truthy(plan) THEN JList(<<>>)
    ELSE IF plan[key].t = "absent" THEN JList(<<>>) ELSE plan[key]

\* src_ids = [h["chunk_id"] for h in hits]
SrcIds(hits) == [i \in 1..Len(hits) |-> hits[i].chunk_id]

\* retrieve_and_plan(incident_text, top_k, filters), given the Embedder's and
\* the Planner's answers: [raised, hits, plan].
NoPlan == [steps |-> JList(<<>>), risks |-> JList(<<>>), confidence |-> JAbsent,
           sources |-> JList(<<>>)]

\* The return value once js is there; default_sources is src_ids[:top_k].
PlanOfParsed(found, answer, js, default_sources) ==
    IF found.raised \/ answer.kind = "raise"
    THEN [raised |-> TRUE, hits |-> found.hits, plan |-> NoPlan]
    \* a JSON value that is no object: "sources" not in js / js["sources"] =
    \* raise TypeError
    ELSE IF js.kind # "object"
    THEN [raised |-> TRUE, hits |-> found.hits, plan |-> NoPlan]
    \* a truthy "plan" that is no dict has no .get: AttributeError
    ELSE IF Truthy(js.plan) /\ js.plan.t # "dict"
    THEN [raised |-> TRUE, hits |-> found.hits, plan |-> NoPlan]
    ELSE [raised |-> FALSE, hits |-> found.hits,
          plan |-> [steps |-> PlanField(js.plan, "steps"),
                    risks |-> PlanField(js.plan, "risks"),
                    \* js.get("confidence", 0.0)
                    confidence |-> IF js.confidence.t = "absent"
                                   THEN JNum(0) ELSE js.confidence,
                    \* if "sources" not in js or not js["sources"]:
                    \*     js["sources"] = src_ids[:top_k]
                    sources |-> IF Truthy(js.sources) THEN js.sources
                                ELSE JList(default_sources)]]

\* The steps after hits = hybrid_search(...); src_ids are the hits' chunk ids.
PlanOfHits(found, src_ids, top_k, answer) ==
    PlanOfParsed(found, answer, ParsedOrFallback(answer, src_ids, top_k),
                 Truncate(src_ids, top_k))

\* The steps after hits = hybrid_search(incident_text, top_k, filters)
PlanOfFound(found, top_k, answer) ==
    PlanOfHits(found, SrcIds(found.hits), top_k, answer)

retrieve_and_plan(cs, embed, top_k, filters, answer) ==
    PlanOfFound(hybrid_search(cs, embed, top_k, filters), top_k, answer)

\* The Classifier's answers: LlmRaises, LlmText, LlmArray, or an object with the
\* keys category, severity and tags.
LlmCats(category, severity, tags) ==
    [kind |-> "object", category |-> category, severity |-> severity,
     tags |-> tags]

\* categorize_incident(incident_text, previews): [raised, cats]; cats is the
\* parsed JSON value, or the defaults when json.loads raised.
FallbackCats == LlmCats(JStr("general"), JStr("medium"), JList(<<>>))

categorize_incident(answer) ==
    IF answer.kind = "raise" THEN [raised |-> TRUE, cats |-> FallbackCats]
    ELSE IF answer.kind = "text" THEN [raised |-> FALSE, cats |-> FallbackCats]
    ELSE [raised |-> FALSE, cats |-> answer]

(***************************************************************************)
(* app/tools: the Notifier and the TicketTracker                           *)
(***************************************************************************)
\* post_plan(channel_id, incident_text, plan_json), given what
\* client.chat_postMessage does: it returns a message ("ts"), raises
\* SlackApiError ("api_error", caught: post_plan returns None), or raises
\* something else ("raise", not caught).
post_plan(answer) ==
    CASE answer = "ts" -> [raised |-> FALSE, ts |-> "ts"]
      [] answer = "api_error" -> [raised |-> FALSE, ts |-> "None"]
      [] OTHER -> [raised |-> TRUE, ts |-> "None"]

\* create_ticket(summary, description), given the tracker's state: not
\* configured, or requests.post answers 201 ("created"), answers another
\* status ("rejected"), or raises ("raise").
create_ticket(answer) ==
    CASE answer = "not_configured" -> [raised |-> FALSE, ok |-> FALSE]
      [] answer = "created" -> [raised |-> FALSE, ok |-> TRUE]
      [] answer = "rejected" -> [raised |-> FALSE, ok |-> FALSE]
      [] OTHER -> [raised |-> TRUE, ok |-> FALSE]

(***************************************************************************)
(* app/server.py: configuration and the confidence router                  *)
(***************************************************************************)
\* CONF_MIN = float(os.getenv("CONFIDENCE_MIN", "0.65")), the default
CONF_MIN == 65

\* CONF_AUTO = float(os.getenv("CONFIDENCE_AUTO", "0.80")), the default
CONF_AUTO == 80

\* float(plan.get("confidence", 0.0)): [raised, v]; float() of None, of a list
\* or of text that is no number raises.
FloatOf(j) ==
    IF j.t = "num" THEN [raised |-> FALSE, v |-> j.v]
    ELSE IF j.t = "absent" THEN [raised |-> FALSE, v |-> 0]
    ELSE [raised |-> TRUE, v |-> 0]

\* A router that takes a confidence equal to a threshold for the lower action.
NextActionAbove(conf) ==
    IF conf > CONF_AUTO THEN "auto_fix"
    ELSE IF conf > CONF_MIN THEN "needs_human" ELSE "discard"

\* "auto_fix" if conf >= CONF_AUTO else ("needs_human" if conf >= CONF_MIN
\* else "discard")
NextAction(conf) ==
    IF conf >= CONF_AUTO THEN "auto_fix"
    ELSE IF conf >= CONF_MIN THEN "needs_human" ELSE "discard"

\* needs_approval = conf < CONF_MIN
NeedsApproval(conf) == conf < CONF_MIN

\* A Slack block that looks at the flag alone.
SlackGateByFlag(post_to_slack, conf) == post_to_slack

\* if req.post_to_slack and conf >= CONF_MIN
SlackGate(post_to_slack, conf) == post_to_slack /\ conf >= CONF_MIN

\* if req.create_jira and conf >= CONF_MIN
JiraGate(create_jira, conf) == create_jira /\ conf >= CONF_MIN

\* action_status after the Slack block: "skipped_low_conf" unless post_plan
\* was called, then "posted" if slack_ts else "post_failed".
SlackStatus(gate, ts) ==
    IF ~gate THEN "skipped_low_conf"
    ELSE IF ts # "None" THEN "posted" ELSE "post_failed"

\* action_status + ("; jira_ok" if jira.get("ok") else "; jira_skip"), as the
\* pair <<status, suffix>>; the suffix is "" when create_ticket was not called.
JiraSuffix(gate, ok) ==
    IF ~gate THEN "" ELSE IF ok THEN "; jira_ok" ELSE "; jira_skip"

\* previews: one entry per hit
Previews(hits) ==
    [i \in 1..Len(hits) |->
        [id |-> hits[i].chunk_id,
         service |-> CASE hits[i].metadata["service"] = Absent -> <<>>
                       [] hits[i].metadata["service"] = JsonNull -> None
                       [] OTHER -> hits[i].metadata["service"],
         error_code |-> CASE hits[i].metadata["error_code"] = Absent -> <<>>
                          [] hits[i].metadata["error_code"] = JsonNull -> None
                          [] OTHER -> hits[i].metadata["error_code"],
         snippet |-> hits[i].text]]

ChunkIds(hits) == [i \in 1..Len(hits) |-> hits[i].chunk_id]

\* (plan.get('steps') or [''])[0]
TopStep(steps) == IF Truthy(steps) THEN steps.v[1] ELSE ""

\* plan.get("steps", [])[:3]
FirstSteps(steps, n) == SubSeq(steps.v, 1, Min(n, Len(steps.v)))

\* json.dumps(x, separators=(",", ":")): the JSON text of x
json_dumps(x) == [json |-> x]

\* _as_json(val): json.loads of a str, other values as they are
_as_json(val) == IF "json" \in DOMAIN val THEN val.json ELSE val

(***************************************************************************)
(* app/server.py: one request, given every answer its external calls get   *)
(***************************************************************************)
\* A request s holds its inputs (kind, text, top_k, filters, post_to_slack,
\* create_jira) and the answers of the calls it makes, in the order it makes
\* them: e1 (Embedder, the handler's own search), e2 (Embedder, the search
\* inside retrieve_and_plan), p (Planner), c (Classifier), n (Notifier),
\* t (TicketTracker). A call the request never makes has the answer Unused*.
EmbedUnused == [ok |-> FALSE, called |-> FALSE]

LlmUnused == [kind |-> "unused"]

Unused == "unused"

\* retrieve_and_plan was not called
NotPlanned == [raised |-> FALSE, plan |-> NoPlan]

\* A handler that goes on with an empty plan when retrieve_and_plan raises.
StageOfDespitePlanner(found, planned, conf, cls, slack, posted, jira, ticket) ==
    CASE found.raised -> "search"
      [] conf.raised -> "float"
      [] cls.raised \/ cls.cats.kind # "object" -> "classify"
      [] slack /\ posted.raised -> "notify"
      [] jira /\ ticket.raised -> "ticket"
      [] OTHER -> "done"

\* The step of api_run and ocr_run that raised, "done" when none did. slack,
\* jira: the handler calls post_plan, create_ticket if it gets that far.
StageOf(found, planned, conf, cls, slack, posted, jira, ticket) ==
    CASE found.raised -> "search"
      [] planned.raised -> "plan"
      [] conf.raised -> "float"
      \* cats.get(...) on a JSON value that is no object: AttributeError
      [] cls.raised \/ cls.cats.kind # "object" -> "classify"
      [] slack /\ posted.raised -> "notify"
      [] jira /\ ticket.raised -> "ticket"
      [] OTHER -> "done"

\* The handler whose first raising step is stage got as far as step st.
Reached(stage, st) ==
    CASE st = "plan" -> stage # "search"
      [] st = "classify" -> stage \notin {"search", "plan", "float"}
      [] st = "notify" -> stage \notin {"search", "plan", "float", "classify"}
      [] st = "ticket" ->
             stage \notin {"search", "plan", "float", "classify", "notify"}
      [] OTHER -> TRUE

\* plan.update({...}) in api_run and ocr_run
UpdatedPlan(plan, cats, next_action, previews) ==
    [steps |-> plan.steps, risks |-> plan.risks,
     confidence |-> plan.confidence, sources |-> plan.sources,
     \* cats.get("category"), cats.get("severity"): None if missing
     category |-> IF cats.category.t = "absent" THEN JNull ELSE cats.category,
     severity |-> IF cats.severity.t = "absent" THEN JNull ELSE cats.severity,
     \* cats.get("tags", [])
     tags |-> IF cats.tags.t = "absent" THEN JList(<<>>) ELSE cats.tags,
     next_action |-> next_action,
     previews |-> previews]

\* final_summary of api_run and of ocr_run: the f-string and its values
SummaryOf(kind, next_action, conf, top) ==
    IF kind = "run"
    THEN [fmt |-> "Incident triaged. Action: {} Conf: {}. Top step: {}",
          action |-> next_action, conf |-> conf, top |-> top]
    ELSE [fmt |-> "OCR triage. Conf: {}. Top step: {}", conf |-> conf, top |-> top]

\* What the handler did and computed, given what each step gave and the step
\* that raised.
Outcome(s, found, planned, conf, cls, slack, posted, jira, ticket, stage) ==
    [stage |-> stage,
     used |-> {"e1"}
              \cup (IF Reached(stage, "plan") THEN {"e2"} ELSE {})
              \cup (IF Reached(stage, "plan") /\ s.e2.ok THEN {"p"} ELSE {})
              \cup (IF Reached(stage, "classify") THEN {"c"} ELSE {})
              \cup (IF Reached(stage, "notify") /\ slack THEN {"n"} ELSE {})
              \cup (IF Reached(stage, "ticket") /\ jira THEN {"t"} ELSE {}),
     hits |-> found.hits,
     planner_hits |-> IF Reached(stage, "plan") THEN planned.hits ELSE <<>>,
     \* what retrieve_and_plan gave: it raised, or the plan it returned
     planned |-> IF Reached(stage, "plan")
                 THEN [raised |-> planned.raised, plan |-> planned.plan]
                 ELSE NotPlanned,
     retrieved_ids |-> ChunkIds(found.hits),
     plan |-> IF Reached(stage, "notify")
              THEN UpdatedPlan(planned.plan, cls.cats, NextAction(conf.v),
                               Previews(found.hits))
              ELSE NoPlan,
     conf |-> IF Reached(stage, "classify") THEN conf.v ELSE 0,
     next_action |-> IF Reached(stage, "notify") THEN NextAction(conf.v) ELSE "",
     needs_approval |-> Reached(stage, "notify") /\ NeedsApproval(conf.v),
     slack_ts |-> IF Reached(stage, "notify") /\ slack THEN posted.ts ELSE "None",
     jira_ok |-> Reached(stage, "ticket") /\ jira /\ ticket.ok,
     action_status |->
         IF stage # "done" THEN <<"", "">>
         ELSE <<SlackStatus(slack, posted.ts), JiraSuffix(jira, ticket.ok)>>,
     final_summary |->
         IF stage # "done" THEN [fmt |-> ""]
         ELSE SummaryOf(s.kind, NextAction(conf.v), conf.v,
                        TopStep(planned.plan.steps)),
     \* the external calls of the Slack and Jira blocks, in order, each with
     \* the confidence of the plan it was made for
     calls |-> (IF Reached(stage, "notify") /\ slack
                THEN <<[delegate |-> "post_plan", conf |-> conf.v]>> ELSE <<>>)
               \o (IF Reached(stage, "ticket") /\ jira
                   THEN <<[delegate |-> "create_ticket", conf |-> conf.v]>>
                   ELSE <<>>),
     \* the steps taken, in order
     trace |-> <<"insert_incident", "embed">>
               \o (IF Reached(stage, "plan") THEN <<"search", "embed">> ELSE <<>>)
               \o (IF Reached(stage, "plan") /\ s.e2.ok
                   THEN <<"search", "plan">> ELSE <<>>)
               \o (IF Reached(stage, "classify") THEN <<"classify">> ELSE <<>>)
               \o (IF Reached(stage, "notify") THEN <<"route">> ELSE <<>>)
               \o (IF Reached(stage, "notify") /\ slack
                   THEN <<"notify">> ELSE <<>>)
               \o (IF Reached(stage, "ticket") /\ jira
                   THEN <<"ticket">> ELSE <<>>)
               \o (IF stage = "done" THEN <<"insert_run">> ELSE <<>>)]

\* The Slack and Jira blocks; ocr_run has no Jira block.
Gated(s, found, planned, conf, cls, slack, posted, jira, ticket) ==
    Outcome(s, found, planned, conf, cls, slack, posted, jira, ticket,
            StageOf(found, planned, conf, cls, slack, posted, jira, ticket))

\* conf = float(plan.get("confidence", 0.0)) and what follows it
Routed(s, found, planned, conf, cls) ==
    Gated(s, found, planned, conf, cls,
          SlackGate(s.post_to_slack, conf.v), post_plan(s.n),
          s.kind = "run" /\ JiraGate(s.create_jira, conf.v), create_ticket(s.t))

\* cats = categorize_incident(req.text, previews) and what follows it
Planned(s, found, planned) ==
    Routed(s, found, planned, FloatOf(planned.plan.confidence),
           categorize_incident(s.c))

\* The steps of api_run and ocr_run after the incident is inserted, up to the
\* arguments of insert_run.
Handle(cs, s) ==
    Planned(s, hybrid_search(cs, s.e1, s.top_k, _clean_filters(s.filters)),
            retrieve_and_plan(cs, s.e2, s.top_k, _clean_filters(s.filters), s.p))

(***************************************************************************)
(* app/db.py: the tables                                                   *)
(***************************************************************************)
\* insert_incident(raw_input, extracted_text): the table after the INSERT; the
\* id returned (lastrowid) is its length.
insert_incident(incs, raw_input, extracted_text) ==
    Append(incs, [source |-> "api", raw_input |-> raw_input,
                  extracted_text |-> extracted_text])

\* A statement that writes the run over the newest row of the table.
insert_run_over(rs, incident_id, retrieved_ids, plan_json, final_summary, action_status) ==
    SubSeq(rs, 1, Len(rs) - 1)
    \o <<[incident_id |-> incident_id,
          retrieved_ids |-> [json |-> retrieved_ids],
          plan |-> [json |-> plan_json],
          final_summary |-> final_summary,
          action_status |-> action_status]>>

\* insert_run(incident_id, retrieved_ids, plan_json, final_summary,
\* action_status): the table after the INSERT.
insert_run(rs, incident_id, retrieved_ids, plan_json, final_summary, action_status) ==
    Append(rs, [incident_id |-> incident_id,
                retrieved_ids |-> json_dumps(retrieved_ids),
                plan |-> json_dumps(plan_json),
                final_summary |-> final_summary,
                action_status |-> action_status])

\* SELECT id, incident_id, retrieved_ids, plan, action_status, created_at
\* FROM runs WHERE id=%s LIMIT 1
SelectRun(rs, run_id) ==
    IF run_id \in 1..Len(rs)
    THEN <<[id |-> run_id, incident_id |-> rs[run_id].incident_id,
            retrieved_ids |-> rs[run_id].retrieved_ids,
            plan |-> rs[run_id].plan,
            action_status |-> rs[run_id].action_status]>>
    ELSE <<>>

\* SELECT ... FROM runs [WHERE incident_id=%s] ORDER BY created_at DESC
\* LIMIT %s OFFSET %s, with no incident filter when incident_id is 0
RECURSIVE Reverse(_)
Reverse(q) == IF q = <<>> THEN <<>> ELSE Append(Reverse(Tail(q)), Head(q))

RECURSIVE Concat(_)
Concat(q) == IF q = <<>> THEN <<>> ELSE Head(q) \o Concat(Tail(q))

SelectRuns(rs, incident_id, limit, offset) ==
    LET all == Concat([i \in 1..Len(rs) |->
                   IF incident_id = 0 \/ rs[i].incident_id = incident_id
                   THEN SelectRun(rs, i) ELSE <<>>])
        desc == Reverse(all)
    IN  SubSeq(desc, offset + 1, Min(offset + limit, Len(desc)))

\* SELECT i.raw_input, i.extracted_text, r.retrieved_ids FROM runs r
\* JOIN incidents i ON r.incident_id = i.id WHERE r.id=%s LIMIT 1
SelectRunIncident(rs, incs, run_id) ==
    IF run_id \in 1..Len(rs) /\ rs[run_id].incident_id \in 1..Len(incs)
    THEN <<[raw_input |-> incs[rs[run_id].incident_id].raw_input,
            extracted_text |-> incs[rs[run_id].incident_id].extracted_text,
            retrieved_ids |-> rs[run_id].retrieved_ids]>>
    ELSE <<>>

\* SELECT incident_id FROM runs WHERE id=%s
SelectIncidentId(rs, run_id) ==
    IF run_id \in 1..Len(rs) THEN <<rs[run_id].incident_id>> ELSE <<>>

\* hybrid_search(text, top_k=5) and retrieve_and_plan(text, top_k=5) in replay_run
ReplayTopK == 5

\* (extracted_text or "").strip() or (raw_input or "")
ReplayText(row) ==
    IF strip(row.extracted_text) # <<>> THEN strip(row.extracted_text)
    ELSE row.raw_input

\* The step of replay_run that raised; "not_found" when the handler returns
\* the not_found result, "done" when it reaches insert_run.
\* row: the result of the first SELECT; sel: of the second.
ReplayStageOf(row, found, planned, conf, slack, posted, sel) ==
    CASE OrEmptyList(row) = <<>> -> "not_found"      \* if not row
      [] found.raised -> "search"
      [] planned.raised -> "plan"
      [] conf.raised -> "float"
      [] slack /\ posted.raised -> "notify"
      \* exec_sql("SELECT incident_id FROM runs WHERE id=%s", ...)[0][0]:
      \* subscripting None, or an empty list, raises
      [] OrEmptyList(sel) = <<>> -> "select"
      [] OTHER -> "done"

ReplayReached(stage, st) ==
    CASE st = "search" -> stage # "not_found"
      [] st = "plan" -> stage \notin {"not_found", "search"}
      [] st = "notify" -> stage \notin {"not_found", "search", "plan", "float"}
      [] OTHER -> TRUE

\* plan.update({"previews": previews, "next_action": next_action}): replay_run
\* does not classify
ReplayedPlan(plan, next_action, previews) ==
    [steps |-> plan.steps, risks |-> plan.risks,
     confidence |-> plan.confidence, sources |-> plan.sources,
     previews |-> previews, next_action |-> next_action]

ReplayOutcome(s, found, planned, conf, slack, posted, sel, stage) ==
    [stage |-> stage,
     used |-> (IF ReplayReached(stage, "search") THEN {"e1"} ELSE {})
              \cup (IF ReplayReached(stage, "plan") THEN {"e2"} ELSE {})
              \cup (IF ReplayReached(stage, "plan") /\ s.e2.ok THEN {"p"} ELSE {})
              \cup (IF ReplayReached(stage, "notify") /\ slack THEN {"n"} ELSE {}),
     hits |-> IF ReplayReached(stage, "search") THEN found.hits ELSE <<>>,
     planner_hits |-> IF ReplayReached(stage, "plan") THEN planned.hits ELSE <<>>,
     planned |-> IF ReplayReached(stage, "plan")
                 THEN [raised |-> planned.raised, plan |-> planned.plan]
                 ELSE NotPlanned,
     retrieved_ids |-> IF ReplayReached(stage, "search")
                       THEN ChunkIds(found.hits) ELSE <<>>,
     plan |-> IF ReplayReached(stage, "notify")
              THEN ReplayedPlan(planned.plan, NextAction(conf.v),
                                Previews(found.hits))
              ELSE NoPlan,
     conf |-> IF ReplayReached(stage, "notify") THEN conf.v ELSE 0,
     next_action |-> IF ReplayReached(stage, "notify")
                     THEN NextAction(conf.v) ELSE "",
     needs_approval |-> FALSE,
     slack_ts |-> IF ReplayReached(stage, "notify") /\ slack
                  THEN posted.ts ELSE "None",
     jira_ok |-> FALSE,
     action_status |->
         IF stage # "done" THEN <<"", "">>
         ELSE <<SlackStatus(slack, posted.ts), "">>,
     final_summary |->
         IF stage # "done" THEN [fmt |-> ""]
         ELSE [fmt |-> "join('; ')", steps |-> FirstSteps(planned.plan.steps, 3)],
     calls |-> IF ReplayReached(stage, "notify") /\ slack
               THEN <<[delegate |-> "post_plan", conf |-> conf.v]>> ELSE <<>>,
     trace |-> <<"select_run">>
               \o (IF ReplayReached(stage, "search") THEN <<"embed">> ELSE <<>>)
               \o (IF ReplayReached(stage, "plan")
                   THEN <<"search", "embed">> ELSE <<>>)
               \o (IF ReplayReached(stage, "plan") /\ s.e2.ok
                   THEN <<"search", "plan">> ELSE <<>>)
               \o (IF ReplayReached(stage, "notify") THEN <<"route">> ELSE <<>>)
               \o (IF ReplayReached(stage, "notify") /\ slack
                   THEN <<"notify">> ELSE <<>>)
               \o (IF stage \in {"select", "done"}
                   THEN <<"select_incident_id">> ELSE <<>>)
               \o (IF stage = "done" THEN <<"insert_run">> ELSE <<>>),
     incident_id |-> IF stage = "done" THEN sel.val[1] ELSE 0]

ReplayGated(s, row, found, planned, conf, slack, posted, sel) ==
    ReplayOutcome(s, found, planned, conf, slack, posted, sel,
                  ReplayStageOf(row, found, planned, conf, slack, posted, sel))

ReplayRouted(s, row, found, planned, conf, sel) ==
    ReplayGated(s, row, found, planned, conf,
                SlackGate(s.post_to_slack, conf.v), post_plan(s.n), sel)

ReplayPlanned(s, row, found, planned, sel) ==
    ReplayRouted(s, row, found, planned, FloatOf(planned.plan.confidence), sel)

\* replay_run(run_id, post_to_slack) up to the arguments of insert_run.
HandleReplay(cs, rs, incs, run_id, s) ==
    ReplayPlanned(s, exec_sql(SelectRunIncident(rs, incs, run_id), 0, FALSE),
                  hybrid_search(cs, s.e1, ReplayTopK, NoFilters),
                  retrieve_and_plan(cs, s.e2, ReplayTopK, NoFilters, s.p),
                  exec_sql(SelectIncidentId(rs, run_id), 0, FALSE))

(***************************************************************************)
(* Inputs and answers the model draws from                                 *)
(***************************************************************************)
Filters(service, error_code, env, keyword) ==
    [k \in FilterKeys |->
        CASE k = "service" -> service
          [] k = "error_code" -> error_code
          [] k = "env" -> env
          [] OTHER -> keyword]

\* The filters of the requests that run the pipeline
PipelineFilters == {NoFilters, Filters(<<" ", "A">>, None, None, None)}

\* RunReq.top_k: its default
DefaultTopK == 5

\* The incident text of a run request, the file name of an ocr_run request
RequestText == <<"a", "b">>

ImageName == <<"i">>

\* ocr_image(tmp_path): no text, or some text
OcrAnswers == {<<>>, <<"a">>}

EmbedAnswers == {Embedded(0), EmbedRaises}

Steps1 == JList(<<"s1">>)

Steps4 == JList(<<"s1", "s2", "s3", "s4">>)

PlannerAnswers ==
    {LlmRaises, LlmText, LlmArray,
     LlmObject(JPlan(Steps1, JList(<<"r1">>)), JNum(64), JList(<<1>>)),
     LlmObject(JPlan(Steps4, JList(<<>>)), JNum(65), JList(<<1>>)),
     LlmObject(JPlan(Steps1, JAbsent), JNum(70), JList(<<>>)),
     LlmObject(JPlan(Steps1, JList(<<"r1">>)), JNum(80), JAbsent),
     LlmObject(JAbsent, JAbsent, JAbsent),
     LlmObject(JStr("restart"), JNum(70), JAbsent),
     LlmObject(JPlan(Steps1, JList(<<>>)), JStr("high"), JAbsent),
     LlmObject(JPlan(Steps1, JList(<<>>)), JNum(150), JAbsent)}

ClassifierAnswers ==
    {LlmRaises, LlmText, LlmArray,
     LlmCats(JStr("network"), JStr("high"), JList(<<"t">>)),
     LlmCats(JAbsent, JAbsent, JAbsent)}

NotifierAnswers == {"ts", "api_error", "raise"}

TicketAnswers == {"not_configured", "created", "rejected", "raise"}

NoAnswers ==
    [e1 |-> EmbedUnused, e2 |-> EmbedUnused, p |-> LlmUnused, c |-> LlmUnused,
     n |-> Unused, t |-> Unused]

Answers(e1, e2, p, c, n, t) ==
    [e1 |-> e1, e2 |-> e2, p |-> p, c |-> c, n |-> n, t |-> t]

\* The answers a request gets, one for each call it may make, drawn from the
\* answers each external service may give.
AnswersOf(from) ==
    {Answers(e1, e2, p, c, n, t) :
        e1 \in from.e, e2 \in from.e, p \in from.p, c \in from.c,
        n \in from.n, t \in from.t}

\* The answers of the calls the request made; the others were never asked for.
AnswersUsed(s, used) ==
    [e1 |-> IF "e1" \in used THEN s.e1 ELSE EmbedUnused,
     e2 |-> IF "e2" \in used THEN s.e2 ELSE EmbedUnused,
     p |-> IF "p" \in used THEN s.p ELSE LlmUnused,
     c |-> IF "c" \in used THEN s.c ELSE LlmUnused,
     n |-> IF "n" \in used THEN s.n ELSE Unused,
     t |-> IF "t" \in used THEN s.t ELSE Unused]

\* Every answer the model knows
AnyAnswer ==
    [e |-> EmbedAnswers, p |-> PlannerAnswers, c |-> ClassifierAnswers,
     n |-> NotifierAnswers, t |-> TicketAnswers]

\* The answers of the services while the store fills up.
SomeAnswer ==
    [e |-> {Embedded(0)},
     p |-> {LlmRaises, LlmText,
            LlmObject(JPlan(Steps4, JList(<<"r1">>)), JNum(80), JAbsent)},
     c |-> {LlmCats(JStr("network"), JStr("high"), JList(<<"t">>))},
     n |-> {"ts"},
     t |-> {"created"}]

Request(kind, post_to_slack, create_jira, top_k, filters, a) ==
    [kind |-> kind, text |-> RequestText,
     post_to_slack |-> post_to_slack, create_jira |-> create_jira,
     top_k |-> top_k, filters |-> filters,
     e1 |-> a.e1, e2 |-> a.e2, p |-> a.p, c |-> a.c, n |-> a.n, t |-> a.t]

\* The run requests: RunReq(text, top_k, filters, post_to_slack, create_jira)
\* with the answers of the calls each may make.
RunRequests(from) ==
    {Request("run", ps, cj, DefaultTopK, f, a) :
        ps \in BOOLEAN, cj \in BOOLEAN, f \in PipelineFilters,
        a \in AnswersOf(from)}

\* The ocr_run requests; ocr_run has no create_jira.
OcrRequests(from) ==
    {Request("ocr_run", ps, FALSE, DefaultTopK, f, a) :
        ps \in BOOLEAN, f \in PipelineFilters, a \in AnswersOf(from)}

\* The replay requests: replay_run(run_id, post_to_slack)
ReplayRequests(from) ==
    {Request("replay", ps, FALSE, ReplayTopK, NoFilters, a) :
        ps \in BOOLEAN, a \in AnswersOf(from)}

(***************************************************************************)
(* The request handlers as actions                                         *)
(***************************************************************************)
\* What the model keeps of the last request: the operation, the request, what
\* Handle computed for it, the ids it got and the result it returned
\* ("ok", "error" for an exception, "not_found", "ocr_empty").
NoOutcome ==
    [stage |-> "", used |-> {}, hits |-> <<>>, planner_hits |-> <<>>,
     planned |-> NotPlanned, retrieved_ids |-> <<>>, plan |-> NoPlan, conf |-> 0, next_action |-> "",
     needs_approval |-> FALSE, slack_ts |-> "None", jira_ok |-> FALSE,
     action_status |-> <<"", "">>, final_summary |-> [fmt |-> ""],
     calls |-> <<>>, trace |-> <<>>]

NoRequest == Request("", FALSE, FALSE, 0, NoFilters, NoAnswers)

Served(op, s, out, result, incident_id, run_id, target, rows) ==
    [op |-> op, post_to_slack |-> s.post_to_slack, create_jira |-> s.create_jira,
     top_k |-> s.top_k, answers |-> AnswersUsed(s, out.used),
     out |-> [f \in DOMAIN NoOutcome |-> out[f]],
     result |-> result, incident_id |-> incident_id, run_id |-> run_id,
     target |-> target, rows |-> rows]

\* POST /run
api_run(s) ==
    LET out == Handle(chunks, s)
        incident_id == Len(incidents) + 1
    IN  /\ Len(incidents) < MaxIncidents
        /\ out.stage = "done" => Len(runs) < MaxRuns
        /\ incidents' = insert_incident(incidents, s.text, <<>>)
        /\ runs' = IF out.stage = "done"
                   THEN insert_run(runs, incident_id, out.retrieved_ids, out.plan,
                                   out.final_summary, out.action_status)
                   ELSE runs
        /\ last' = Served("run", s, out,
                          IF out.stage = "done" THEN "ok" ELSE "error",
                          incident_id,
                          IF out.stage = "done" THEN Len(runs) + 1 ELSE 0, 0, <<>>)
        /\ UNCHANGED <<chunks, lastSearch>>

\* An ocr_run that stores the incident before it looks at the extracted text.
ocr_run_insert_first(extracted, s) ==
    LET out == IF extracted = <<>> THEN NoOutcome ELSE Handle(chunks, s)
        incident_id == Len(incidents) + 1
    IN  /\ Len(incidents) < MaxIncidents
        /\ out.stage = "done" => Len(runs) < MaxRuns
        /\ incidents' = insert_incident(incidents, <<"image:">> \o ImageName,
                                        extracted)
        /\ runs' = IF out.stage = "done"
                   THEN insert_run(runs, incident_id, out.retrieved_ids,
                                   out.plan, out.final_summary,
                                   out.action_status)
                   ELSE runs
        /\ last' = IF extracted = <<>>
                   THEN Served("ocr_run", s, NoOutcome, "ocr_empty", 0, 0, 0, <<>>)
                   ELSE Served("ocr_run", s, out,
                               IF out.stage = "done" THEN "ok" ELSE "error",
                               incident_id,
                               IF out.stage = "done" THEN Len(runs) + 1 ELSE 0,
                               0, <<>>)
        /\ UNCHANGED <<chunks, lastSearch>>

\* POST /ocr_run with an image in which ocr_image finds the text extracted
ocr_run(extracted, s) ==
    IF extracted = <<>>
    THEN \* if not extracted: return {"error": "ocr_empty", ...}
         /\ last' = Served("ocr_run", s, NoOutcome, "ocr_empty", 0, 0, 0, <<>>)
         /\ UNCHANGED <<chunks, incidents, runs, lastSearch>>
    ELSE LET out == Handle(chunks, s)
             incident_id == Len(incidents) + 1
         IN  /\ Len(incidents) < MaxIncidents
             /\ out.stage = "done" => Len(runs) < MaxRuns
             /\ incidents' = insert_incident(incidents, <<"image:">> \o ImageName,
                                             extracted)
             /\ runs' = IF out.stage = "done"
                        THEN insert_run(runs, incident_id, out.retrieved_ids,
                                        out.plan, out.final_summary,
                                        out.action_status)
                        ELSE runs
             /\ last' = Served("ocr_run", s, out,
                               IF out.stage = "done" THEN "ok" ELSE "error",
                               incident_id,
                               IF out.stage = "done" THEN Len(runs) + 1 ELSE 0,
                               0, <<>>)
             /\ UNCHANGED <<chunks, lastSearch>>

\* POST /runs/{run_id}/replay
replay_run(run_id, s) ==
    LET out == HandleReplay(chunks, runs, incidents, run_id, s)
    IN  /\ out.stage = "done" => Len(runs) < MaxRuns
        /\ runs' = IF out.stage = "done"
                   THEN insert_run(runs, out.incident_id, out.retrieved_ids,
                                   out.plan, out.final_summary, out.action_status)
                   ELSE runs
        /\ last' = Served("replay", s, out,
                          CASE out.stage = "done" -> "ok"
                            [] out.stage = "not_found" -> "not_found"
                            [] OTHER -> "error",
                          out.incident_id,
                          IF out.stage = "done" THEN Len(runs) + 1 ELSE 0,
                          run_id, <<>>)
        /\ UNCHANGED <<chunks, incidents, lastSearch>>

\* One row as _row_to_run returns it
_row_to_run(r) ==
    [run_id |-> r.id, incident_id |-> r.incident_id,
     retrieved_ids |-> _as_json(r.retrieved_ids), plan |-> _as_json(r.plan),
     action_status |-> r.action_status]

\* GET /runs?limit=&offset=&incident_id= (incident_id 0: no filter)
list_runs(limit, offset, incident_id) ==
    LET rows == OrEmptyList(
                    exec_sql(SelectRuns(runs, incident_id, limit, offset), 0, FALSE))
    IN  /\ last' = Served("list_runs", NoRequest, NoOutcome, "ok", incident_id, 0,
                          0, [i \in 1..Len(rows) |-> _row_to_run(rows[i])])
        /\ UNCHANGED <<chunks, incidents, runs, lastSearch>>

\* GET /runs/{run_id}
get_run(run_id) ==
    LET rows == OrEmptyList(exec_sql(SelectRun(runs, run_id), 0, FALSE))
    IN  /\ last' = IF rows = <<>>
                   THEN Served("get_run", NoRequest, NoOutcome, "not_found", 0, 0,
                               run_id, <<>>)
                   ELSE Served("get_run", NoRequest, NoOutcome, "ok", 0, 0, run_id,
                               <<_row_to_run(rows[1])>>)
        /\ UNCHANGED <<chunks, incidents, runs, lastSearch>>

(***************************************************************************)
(* app/ingest.py and POST /search                                          *)
(***************************************************************************)
Metadata(service, error_code, env) ==
    [k \in {"service", "error_code", "env"} |->
        CASE k = "service" -> service [] k = "error_code" -> error_code
          [] OTHER -> env]

\* The metadata of ingested chunks: tickets (service, error_code, env, any of
\* them null) and manual pages (vendor and type only).
IngestedChunks ==
    {[text |-> <<"a", "b">>, metadata |-> Metadata(<<"a">>, <<"e">>, <<"p">>)],
     [text |-> <<"B">>, metadata |-> Metadata(<<"A">>, JsonNull, Absent)],
     [text |-> <<"B">>, metadata |-> Metadata(<<"b">>, <<"e">>, <<"p">>)]}

ChunkVectors == {0, 1}

\* The filters sent to POST /search, before they are cleaned
SearchFilters ==
    {NoFilters,
     Filters(<<"a">>, None, None, None),
     Filters(<<" ", "A", " ">>, None, None, None),
     Filters(<<"b">>, None, None, <<"b">>),
     Filters(<<" ">>, <<"E">>, <<"p">>, None),
     Filters(None, None, None, <<"_", "b">>)}

\* lastSearch before any search of the corpus as it is
NoSearch ==
    [called |-> FALSE, query |-> EmbedRaises, top_k |-> 0, filters |-> NoFilters,
     raised |-> FALSE, hits |-> <<>>, joined |-> 0, selected |-> 0]

\* insert_chunk(doc_id, text, metadata)
insert_chunk(text, metadata) ==
    /\ Len(chunks) < MaxChunks
    /\ chunks' = Append(chunks, [text |-> text, metadata |-> metadata,
                                 embedding |-> {}])
    /\ lastSearch' = NoSearch
    /\ UNCHANGED <<incidents, runs, last>>

\* upsert_embedding(chunk_id, vector): REPLACE INTO embeddings
upsert_embedding(chunk_id, vector) ==
    /\ chunk_id \in 1..Len(chunks)
    /\ chunks' = [chunks EXCEPT ![chunk_id].embedding = {vector}]
    /\ lastSearch' = NoSearch
    /\ UNCHANGED <<incidents, runs, last>>

\* POST /search: hits = hybrid_search(req.text, req.top_k,
\* _clean_filters(req.filters)). query is the Embedder's answer for req.text;
\* joined and selected record how many rows the join held and how many the
\* statement selected in the database.
api_search(embed, top_k, filters) ==
    LET found == hybrid_search(chunks, embed, top_k, _clean_filters(filters))
    IN  /\ lastSearch' =
               [called |-> TRUE, query |-> embed, top_k |-> top_k,
                filters |-> filters,
                raised |-> found.raised, hits |-> found.hits,
                joined |-> IF embed.ok
                           THEN Cardinality(JoinRows(chunks, embed.vec)) ELSE 0,
                selected |-> IF embed.ok
                             THEN Len(SelectedRows(chunks, embed.vec, top_k,
                                                   _clean_filters(filters)))
                             ELSE 0]
        /\ UNCHANGED <<chunks, incidents, runs, last>>

(***************************************************************************)
(* Specifications                                                          *)
(***************************************************************************)
\* The corpus the request pipeline runs over
SampleCorpus ==
    <<[text |-> <<"a", "b">>, metadata |-> Metadata(<<"a">>, <<"e">>, <<"p">>),
       embedding |-> {0}],
      [text |-> <<"B">>, metadata |-> Metadata(<<"b">>, <<"e">>, <<"p">>),
       embedding |-> {1}]>>

NoLast == Served("", NoRequest, NoOutcome, "", 0, 0, 0, <<>>)

\* The service over an ingested corpus, with empty incidents and runs tables
Init ==
    /\ chunks = SampleCorpus
    /\ incidents = <<>>
    /\ runs = <<>>
    /\ last = NoLast
    /\ lastSearch = NoSearch

\* The service takes request after request; the Planner answers with text
\* that is no JSON, with a plan or not at all.
Next ==
    \/ \E s \in RunRequests(SomeAnswer) : api_run(s)
    \/ \E x \in OcrAnswers, s \in OcrRequests(SomeAnswer) : ocr_run(x, s)
    \/ \E run_id \in 1..(MaxRuns + 1), s \in ReplayRequests(SomeAnswer) :
           replay_run(run_id, s)
    \/ \E limit \in {1, 20}, offset \in {0, 1}, incident_id \in 0..1 :
           list_runs(limit, offset, incident_id)
    \/ \E run_id \in 1..(MaxRuns + 1) : get_run(run_id)

Spec == Init /\ [][Next]_vars

\* One request, with any answer of the external services, served on a store
\* that holds no rows or the rows of one earlier run request.
EarlierRequest ==
    Request("run", TRUE, FALSE, DefaultTopK, NoFilters,
            Answers(Embedded(0), Embedded(0),
                    LlmObject(JPlan(Steps4, JList(<<"r1">>)), JNum(80), JAbsent),
                    LlmCats(JStr("network"), JStr("high"), JList(<<"t">>)),
                    "ts", Unused))

InitPipeline ==
    /\ chunks = SampleCorpus
    /\ \/ /\ incidents = <<>>
          /\ runs = <<>>
       \/ LET out == Handle(SampleCorpus, EarlierRequest)
          IN  /\ incidents = insert_incident(<<>>, RequestText, <<>>)
              /\ runs = insert_run(<<>>, 1, out.retrieved_ids, out.plan,
                                   out.final_summary, out.action_status)
    /\ last = NoLast
    /\ lastSearch = NoSearch

NextPipeline ==
    \/ /\ last = NoLast
       /\ \E s \in RunRequests(AnyAnswer) : api_run(s)
    \/ /\ last = NoLast
       /\ \E x \in OcrAnswers, s \in OcrRequests(AnyAnswer) : ocr_run(x, s)
    \/ /\ last = NoLast
       /\ \E run_id \in 1..(MaxRuns + 1), s \in ReplayRequests(AnyAnswer) :
              replay_run(run_id, s)
    \/ /\ last = NoLast
       /\ \E limit \in {1, 20}, offset \in {0, 1}, incident_id \in 0..1 :
              list_runs(limit, offset, incident_id)
    \/ /\ last = NoLast
       /\ \E run_id \in 1..(MaxRuns + 1) : get_run(run_id)

SpecPipeline == InitPipeline /\ [][NextPipeline]_vars

\* Ingestion and search: the corpus is built chunk by chunk and searched.
\* The Embedder's answers to POST /search: a vector of EMBED_DIM numbers, a
\* shorter one, or the call raises.
SearchEmbedAnswers == EmbedAnswers \cup {EmbeddedOfLen(0, EMBED_DIM - 1)}

InitSearch ==
    /\ chunks = <<>>
    /\ incidents = <<>>
    /\ runs = <<>>
    /\ last = NoLast
    /\ lastSearch = NoSearch

NextSearch ==
    \/ \E c \in IngestedChunks : insert_chunk(c.text, c.metadata)
    \/ \E chunk_id \in 1..MaxChunks, vector \in ChunkVectors :
           upsert_embedding(chunk_id, vector)
    \/ \E embed \in SearchEmbedAnswers, top_k \in 1..MaxTopK,
          filters \in SearchFilters :
           api_search(embed, top_k, filters)

SpecSearch == InitSearch /\ [][NextSearch]_vars

(***************************************************************************)
(* Properties                                                              *)
(***************************************************************************)
\* The last request ran the pipeline and stored a run.
StoredRun ==
    /\ last.op \in {"run", "ocr_run", "replay"}
    /\ last.result = "ok"
    /\ last.run_id \in 1..Len(runs)

\* The routing table of the specification, in hundredths.
RouteOf(c) ==
    CASE c >= CONF_AUTO -> "auto_fix"
      [] c >= CONF_MIN /\ c < CONF_AUTO -> "needs_human"
      [] OTHER -> "discard"

\* C1: for every confidence in [0,1] next_action is auto_fix exactly from
\* CONF_AUTO up, needs_human exactly from CONF_MIN up to CONF_AUTO, discard
\* exactly below CONF_MIN; every request that routes a plan computes this
\* value, and the plan of the run it stores holds it.
C1_Routing ==
    /\ \A c \in 0..100 : NextAction(c) = RouteOf(c)
    /\ last.out.next_action # "" => last.out.next_action = RouteOf(last.out.conf)
    /\ StoredRun =>
           /\ _as_json(runs[last.run_id].plan).next_action = last.out.next_action
           /\ _as_json(runs[last.run_id].plan).next_action
                  = RouteOf(FloatOf(_as_json(runs[last.run_id].plan).confidence).v)

\* An ocr_run request whose plan has confidence CONF_MIN stored needs_human.
C1_Witness ==
    /\ StoredRun
    /\ last.op = "ocr_run"
    /\ last.out.conf = CONF_MIN
    /\ _as_json(runs[last.run_id].plan).next_action = "needs_human"

\* C2: the needs-approval flag of run and ocr_run is false exactly when the
\* action is auto_fix, true for needs_human and discard.
C2_NeedsApproval ==
    (last.op \in {"run", "ocr_run"} /\ last.out.next_action # "") =>
        (last.out.needs_approval <=> last.out.next_action # "auto_fix")

\* C3: post_plan and create_ticket are called only for a plan whose
\* confidence is at least CONF_MIN, and only after the handler has routed it.
C3_GatedCalls ==
    /\ \A i \in 1..Len(last.out.calls) : last.out.calls[i].conf >= CONF_MIN
    /\ (last.answers.n # Unused \/ last.answers.t # Unused) =>
           last.out.conf >= CONF_MIN
    /\ \A i \in 1..Len(last.out.trace) :
           last.out.trace[i] \in {"notify", "ticket"} =>
               \E j \in 1..(i - 1) : last.out.trace[j] = "route"

\* A run request with both flags set called both delegates for a plan whose
\* confidence is CONF_MIN.
C3_Witness ==
    /\ last.op = "run"
    /\ last.post_to_slack /\ last.create_jira
    /\ last.out.conf = CONF_MIN
    /\ Len(last.out.calls) = 2

\* C4: no step removes a row of runs or changes one of its fields.
C4_AppendOnly ==
    [][/\ Len(runs') >= Len(runs)
       /\ \A i \in 1..Len(runs) : runs'[i] = runs[i]]_vars

\* A run was stored while the table held another one.
C4_Witness ==
    /\ StoredRun
    /\ last.run_id = 2
    /\ runs[1] # runs[2]

\* C5: replay of an existing run R inserts exactly one new run, with another
\* id than R and the incident_id of R, returns its id and leaves the rows
\* there were as they are.
C5_ReplayInsertsRun ==
    [][(last'.op = "replay" /\ last'.target \in 1..Len(runs)) =>
           /\ Len(runs') = Len(runs) + 1
           /\ last'.result = "ok"
           /\ last'.run_id = Len(runs')
           /\ last'.run_id # last'.target
           /\ runs'[Len(runs')].incident_id = runs[last'.target].incident_id
           /\ \A i \in 1..Len(runs) : runs'[i] = runs[i]]_vars

\* C6: a search returns at most top_k hits, in non-decreasing order of score.
C6_AtMostTopKSorted ==
    (lastSearch.called /\ ~lastSearch.raised) =>
        /\ Len(lastSearch.hits) <= lastSearch.top_k
        /\ \A i, j \in 1..Len(lastSearch.hits) :
               i < j => lastSearch.hits[i].score <= lastSearch.hits[j].score

\* A search over a corpus whose join holds more rows than top_k.
C6_Witness ==
    /\ lastSearch.called /\ ~lastSearch.raised
    /\ lastSearch.top_k >= 1
    /\ lastSearch.joined > lastSearch.top_k

\* A chunk or hit r satisfies the supplied filters flt: service, error_code
\* and env equal ignoring case, keyword a substring of the text ignoring case.
SatisfiesFilters(r, flt) ==
    /\ \A k \in {"service", "error_code", "env"} :
           flt[k] # None =>
               /\ r.metadata[k] \notin {Absent, JsonNull}
               /\ Lower(r.metadata[k]) = Lower(flt[k])
    /\ flt["keyword"] # None => IsSubstring(Lower(flt["keyword"]), Lower(r.text))

\* C7: every hit of a search satisfies all the filters supplied.
C7_HitsSatisfyFilters ==
    (lastSearch.called /\ ~lastSearch.raised) =>
        \A i \in 1..Len(lastSearch.hits) :
            SatisfiesFilters(lastSearch.hits[i], _clean_filters(lastSearch.filters))

\* A search with a service filter over a corpus that holds an embedded chunk
\* of another service.
C7_Witness ==
    /\ lastSearch.called /\ ~lastSearch.raised
    /\ _clean_filters(lastSearch.filters)["service"] # None
    /\ \E i \in 1..Len(chunks) :
           /\ chunks[i].embedding # {}
           /\ ~SatisfiesFilters(chunks[i], _clean_filters(lastSearch.filters))

\* The two-phase reference: the max(top_k, 50) rows nearest to the query,
\* those of them that satisfy the filters, by ascending distance, the first
\* top_k.
TwoPhase(cs, q, top_k, flt) ==
    LET buffer == Limit(OrderByScore(JoinRows(cs, q)), Max(top_k, 50))
        survivors == {r \in SeqToSet(buffer) : SatisfiesFilters(r, flt)}
        ranked == Limit(OrderByScore(survivors), top_k)
    IN  [i \in 1..Len(ranked) |-> RowToHit(ranked[i])]

\* C8: the hits of a search are those of the two-phase reference.
C8_EqualsTwoPhase ==
    (lastSearch.called /\ ~lastSearch.raised) =>
        lastSearch.hits = TwoPhase(chunks, lastSearch.query.vec, lastSearch.top_k,
                                   _clean_filters(lastSearch.filters))

\* A Planner output that is not the expected structure: text that is no JSON,
\* a JSON value that is no object, an object whose plan is no object.
Malformed(p) ==
    \/ p.kind \in {"text", "array"}
    \/ p.kind = "object" /\ p.plan.t \notin {"dict", "absent"}

\* C9: for a Planner output that is not the expected structure
\* retrieve_and_plan does not raise and returns the fallback plan: one generic
\* step, no risks, confidence 0.5, the retrieved chunk ids up to top_k.
C9_FallbackOnMalformed ==
    Malformed(last.answers.p) =>
        /\ ~last.out.planned.raised
        /\ last.out.planned.plan =
               [steps |-> JList(<<"Review top results and apply known fix">>),
                risks |-> JList(<<>>),
                confidence |-> JNum(50),
                sources |-> JList(SubSeq(SrcIds(last.out.planner_hits), 1,
                                         Min(last.top_k,
                                             Len(last.out.planner_hits))))]

\* C10: the action_status of a stored run is skipped_low_conf only below
\* CONF_MIN, posted exactly when post_plan was called and returned a message
\* id, post_failed exactly when it was called and returned none, and has a
\* jira suffix exactly when create_ticket was called.
C10_ActionStatusMeaning ==
    StoredRun =>
        /\ runs[last.run_id].action_status[1] = "skipped_low_conf" =>
               last.out.conf < CONF_MIN
        /\ runs[last.run_id].action_status[1] = "posted" <=>
               (last.answers.n # Unused /\ last.out.slack_ts # "None")
        /\ runs[last.run_id].action_status[1] = "post_failed" <=>
               (last.answers.n # Unused /\ last.out.slack_ts = "None")
        /\ runs[last.run_id].action_status[2] \in {"; jira_ok", "; jira_skip"} <=>
               last.answers.t # Unused

\* C11: a run request that asks for a ticket and whose plan is routed to
\* needs_human does not call create_ticket.
C11_NoTicketAtNeedsHuman ==
    (last.op = "run" /\ last.create_jira /\ last.out.next_action = "needs_human") =>
        /\ last.answers.t = Unused
        /\ \A i \in 1..Len(last.out.calls) :
               last.out.calls[i].delegate # "create_ticket"

\* C12: a request whose Embedder or Planner call raises fails and inserts no
\* run; insert_run is the last step of a request, taken after its embedding,
\* search, planning and (run, ocr_run) classification steps.
C12_NoRunWhenCallFails ==
    [][/\ (\/ last'.answers.e1 = EmbedRaises
           \/ last'.answers.e2 = EmbedRaises
           \/ last'.answers.p = LlmRaises) =>
              (last'.result = "error" /\ runs' = runs)
       /\ last'.result = "error" => runs' = runs
       /\ \A i \in 1..Len(last'.out.trace) :
              last'.out.trace[i] = "insert_run" =>
                  /\ i = Len(last'.out.trace)
                  /\ \E j \in 1..(i - 1) : last'.out.trace[j] = "embed"
                  /\ \E j \in 1..(i - 1) : last'.out.trace[j] = "search"
                  /\ \E j \in 1..(i - 1) : last'.out.trace[j] = "plan"
                  /\ last'.op \in {"run", "ocr_run"} =>
                         \E j \in 1..(i - 1) : last'.out.trace[j] = "classify"]_vars

\* A run request whose Planner call raised: its incident is there, no run is.
C12_Witness ==
    /\ last.op = "run"
    /\ last.answers.p = LlmRaises
    /\ last.result = "error"
    /\ last.run_id = 0
    /\ last.incident_id = Len(incidents)

\* C13: a request whose post_plan or create_ticket call fails (tracker not
\* configured included) still stores its run and returns, with post_failed,
\* respectively the "; jira_skip" suffix, in action_status.
C13_ToolFailureNotFatal ==
    (\/ last.answers.n \in {"api_error", "raise"}
     \/ last.answers.t \in {"not_configured", "rejected", "raise"}) =>
        /\ StoredRun
        /\ last.answers.n \in {"api_error", "raise"} =>
               runs[last.run_id].action_status[1] = "post_failed"
        /\ last.answers.t \in {"not_configured", "rejected", "raise"} =>
               runs[last.run_id].action_status[2] = "; jira_skip"

\* C14: whatever requests came before it, each replay of a run of an incident
\* that does not fail adds one run row of its own, under an id no row had,
\* for that incident, holding the plan, the retrieved ids and the action
\* status of this very request, and no row there was is lost or changed.
C14_EachRequestOwnRun ==
    [][(/\ last'.op = "replay"
        /\ last'.target \in 1..Len(runs)
        /\ last'.result # "error") =>
           /\ SubSeq(runs', 1, Len(runs)) = runs
           /\ Len(runs') = Len(runs) + 1
           /\ last'.run_id \notin 1..Len(runs)
           /\ last'.run_id = Len(runs')
           /\ runs'[last'.run_id].incident_id = runs[last'.target].incident_id
           /\ runs'[last'.run_id].plan = json_dumps(last'.out.plan)
           /\ runs'[last'.run_id].retrieved_ids = json_dumps(last'.out.retrieved_ids)
           /\ runs'[last'.run_id].action_status = last'.out.action_status]_vars

\* C15: replay returns not_found exactly for a run id with no run/incident
\* pair in the store, and a not_found replay called no service and changed
\* no table.
C15_NotFoundIffNoRun ==
    [][last'.op = "replay" =>
           /\ last'.result = "not_found" <=>
                  SelectRunIncident(runs, incidents, last'.target) = <<>>
           /\ last'.result = "not_found" =>
                  /\ last'.out.used = {}
                  /\ last'.out.calls = <<>>
                  /\ runs' = runs
                  /\ incidents' = incidents]_vars

\* The steps, risks, confidence and sources of a plan.
PlanCore(plan) ==
    <<plan.steps, plan.risks, plan.confidence, plan.sources>>

\* C16: get_run of a stored run returns that run, and every run returned by
\* get_run or list_runs carries a plan with the steps, risks, confidence and
\* sources insert_run wrote for it.
C16_PlanRoundTrip ==
    /\ (last.op = "get_run" /\ last.target \in 1..Len(runs)) =>
           /\ last.result = "ok"
           /\ Len(last.rows) = 1
           /\ last.rows[1].run_id = last.target
    /\ last.op \in {"get_run", "list_runs"} =>
           \A i \in 1..Len(last.rows) :
               /\ last.rows[i].run_id \in 1..Len(runs)
               /\ PlanCore(last.rows[i].plan) =
                      PlanCore(_as_json(runs[last.rows[i].run_id].plan))

\* C17: an ocr_run whose extracted text is empty returns ocr_empty, changes
\* no table and makes no embedding, search, planning, classification,
\* notification or ticket call; an ocr_run that goes on stores an incident
\* with the text it extracted.
C17_OcrEmptyShortCircuits ==
    [][last'.op = "ocr_run" =>
           /\ last'.result = "ocr_empty" =>
                  /\ incidents' = incidents
                  /\ runs' = runs
                  /\ chunks' = chunks
                  /\ last'.out.used = {}
                  /\ last'.out.calls = <<>>
                  /\ last'.out.trace = <<>>
                  /\ last'.answers.e1 = EmbedUnused
                  /\ last'.answers.e2 = EmbedUnused
                  /\ last'.answers.p = LlmUnused
                  /\ last'.answers.c = LlmUnused
                  /\ last'.answers.n = Unused
                  /\ last'.answers.t = Unused
           /\ last'.result # "ocr_empty" =>
                  /\ Len(incidents') = Len(incidents) + 1
                  /\ incidents'[Len(incidents')].extracted_text # <<>>]_vars

\* An ocr_run answered ocr_empty while the store already holds an incident.
C17_Witness ==
    /\ last.op = "ocr_run"
    /\ last.result = "ocr_empty"
    /\ Len(incidents) >= 1

\* The Classifier's failures: the call raises, or its answer is no JSON, or
\* it is JSON without the keys category, severity and tags.
ClassifierFailures ==
    {LlmRaises, LlmText, LlmArray, LlmCats(JAbsent, JAbsent, JAbsent)}

\* C18: a run or ocr_run request whose classification fails does not end at
\* its classification step, and the plan it stores carries category general,
\* severity medium and no tags.
C18_ClassifierFailureNotFatal ==
    (last.op \in {"run", "ocr_run"} /\ last.answers.c \in ClassifierFailures) =>
        /\ last.out.stage # "classify"
        /\ StoredRun =>
               /\ _as_json(runs[last.run_id].plan).category = JStr("general")
               /\ _as_json(runs[last.run_id].plan).severity = JStr("medium")
               /\ _as_json(runs[last.run_id].plan).tags = JList(<<>>)

(***************************************************************************)
(* app/agent.py: the plan builder over given hits                          *)
(***************************************************************************)
\* What hybrid_search may hand to retrieve_and_plan: no hit, or hits of the
\* sample corpus in either order.
HitOf(chunk_id, score) ==
    [chunk_id |-> chunk_id, text |-> SampleCorpus[chunk_id].text,
     metadata |-> SampleCorpus[chunk_id].metadata, score |-> score]

SampleHits ==
    {<<>>, <<HitOf(1, 0)>>, <<HitOf(2, 0)>>, <<HitOf(1, 0), HitOf(2, 100)>>,
     <<HitOf(2, 0), HitOf(1, 100)>>}

\* top_k of retrieve_and_plan: the smallest values and RunReq's default
PlanTopKs == (1..MaxTopK) \cup {DefaultTopK}

\* The Planner's answers, with sources missing, null, empty, and present
PlanAnswers ==
    PlannerAnswers \cup
        {LlmObject(JPlan(Steps1, JList(<<>>)), JNum(80), JNull),
         LlmObject(JPlan(Steps1, JList(<<>>)), JNum(80), JList(<<2>>)),
         LlmObject(JAbsent, JNum(80), JList(<<>>)),
         LlmObject(JNull, JAbsent, JStr("doc"))}

\* retrieve_and_plan from the line after hits = hybrid_search(...) on
plan_of_hits(hits, top_k, answer) ==
    LET planned == PlanOfFound([raised |-> FALSE, hits |-> hits], top_k, answer)
    IN  /\ last' = Served("plan",
                          Request("plan", FALSE, FALSE, top_k, NoFilters,
                                  [NoAnswers EXCEPT !.p = answer]),
                          [NoOutcome EXCEPT
                               !.stage = "plan", !.used = {"p"},
                               !.planner_hits = planned.hits,
                               !.planned = [raised |-> planned.raised,
                                            plan |-> planned.plan]],
                          IF planned.raised THEN "error" ELSE "ok",
                          0, 0, 0, <<>>)
        /\ UNCHANGED <<chunks, incidents, runs, lastSearch>>

InitPlan == Init

\* The search hands over at most top_k hits (LIMIT top_k)
NextPlan ==
    \E hits \in SampleHits, top_k \in PlanTopKs, answer \in PlanAnswers :
        Len(hits) <= top_k /\ plan_of_hits(hits, top_k, answer)

SpecPlan == InitPlan /\ [][NextPlan]_vars

\* C19: a plan retrieve_and_plan returns for at least one hit has sources that
\* are not empty, and when the Planner gave none they are the first top_k
\* chunk ids of the hits.
C19_SourcesWhenHits ==
    (/\ last.op = "plan"
     /\ last.out.planner_hits # <<>>
     /\ ~last.out.planned.raised) =>
        /\ Truthy(last.out.planned.plan.sources)
        /\ last.out.planned.plan.sources.t = "list" =>
               last.out.planned.plan.sources.v # <<>>
        /\ (last.answers.p.kind = "text" \/ ~Truthy(last.answers.p.sources)) =>
               last.out.planned.plan.sources =
                   JList(SubSeq(SrcIds(last.out.planner_hits), 1,
                                Min(last.top_k, Len(last.out.planner_hits))))

\* A plan for one hit from a Planner answer whose sources are an empty list.
C19_Witness ==
    /\ last.op = "plan"
    /\ Len(last.out.planner_hits) = 1
    /\ ~last.out.planned.raised
    /\ last.answers.p.kind = "object"
    /\ last.answers.p.sources = JList(<<>>)
    /\ last.out.planned.plan.sources = JList(<<last.out.planner_hits[1].chunk_id>>)

\* A confidence that is a number in [0.0, 1.0], in hundredths.
InUnitRange(j) == j.t = "num" /\ j.v \in 0..100

\* C20: every plan retrieve_and_plan returns and every plan stored on a run
\* has a confidence that is a number in [0.0, 1.0], and it is 0.0 when the
\* Planner's object has no confidence.
C20_ConfidenceInRange ==
    /\ (last.out.planned # NotPlanned /\ ~last.out.planned.raised) =>
           /\ InUnitRange(last.out.planned.plan.confidence)
           /\ (last.answers.p.kind = "object"
               /\ last.answers.p.confidence = JAbsent) =>
                  last.out.planned.plan.confidence = JNum(0)
    /\ StoredRun => InUnitRange(_as_json(runs[last.run_id].plan).confidence)

\* C21: any two stored runs whose plans have the same steps carry the same
\* summary.
C21_SummaryOfStepsOnly ==
    \A i, j \in 1..Len(runs) :
        _as_json(runs[i].plan).steps = _as_json(runs[j].plan).steps =>
            runs[i].final_summary = runs[j].final_summary

\* C22: a search whose query vector has another length than EMBED_DIM fails
\* and returns no hits, and ranks nothing with that vector.
C22_DimensionMismatchFails ==
    (/\ lastSearch.called
     /\ lastSearch.query.ok
     /\ VectorLen(lastSearch.query) # EMBED_DIM) =>
        /\ lastSearch.raised
        /\ lastSearch.hits = <<>>

(***************************************************************************)
(* app/server.py: the router under the thresholds of the environment       *)
(***************************************************************************)
\* The expression of next_action with the thresholds the module read at
\* import: CONF_MIN = float(os.getenv("CONFIDENCE_MIN", "0.65")) and
\* CONF_AUTO = float(os.getenv("CONFIDENCE_AUTO", "0.80")), in hundredths.
NextActionWith(conf, conf_min, conf_auto) ==
    IF conf >= conf_auto THEN "auto_fix"
    ELSE IF conf >= conf_min THEN "needs_human" ELSE "discard"

\* Values CONFIDENCE_MIN and CONFIDENCE_AUTO may hold: float() takes any number
Thresholds == {-10, 0, 50, CONF_MIN, CONF_AUTO, 100, 120}

\* Confidences to route, the thresholds among them
Confidences == {0, 1, 50, 64, 65, 79, 80, 99, 100}

\* The module after import, before it routed anything
Configured(conf_min, conf_auto) ==
    [op |-> "import", conf_min |-> conf_min, conf_auto |-> conf_auto,
     conf |-> 0, next_action |-> ""]

\* next_action = ... for the confidence of a plan
route(conf) ==
    /\ last' = [last EXCEPT !.op = "route", !.conf = conf,
                            !.next_action =
                                NextActionWith(conf, last.conf_min, last.conf_auto)]
    /\ UNCHANGED <<chunks, incidents, runs, lastSearch>>

InitRouter ==
    /\ chunks = SampleCorpus
    /\ incidents = <<>>
    /\ runs = <<>>
    /\ lastSearch = NoSearch
    /\ \E conf_min \in Thresholds, conf_auto \in Thresholds :
           last = Configured(conf_min, conf_auto)

NextRouter == \E conf \in Confidences : route(conf)

SpecRouter == InitRouter /\ [][NextRouter]_vars

\* discard < needs_human < auto_fix
ActionRank(a) ==
    CASE a = "discard" -> 0 [] a = "needs_human" -> 1 [] OTHER -> 2

\* C23: under the thresholds the service runs with, 0 <= CONF_MIN <=
\* CONF_AUTO <= 1, the router sends 0.0 to discard, CONF_MIN to needs_human
\* and CONF_AUTO to auto_fix, and the rank of the action does not decrease as
\* the confidence increases.
C23_ThresholdsAndBoundaries ==
    last.op = "route" =>
        /\ 0 <= last.conf_min
        /\ last.conf_min <= last.conf_auto
        /\ last.conf_auto <= 100
        /\ last.conf = 0 => last.next_action = "discard"
        /\ last.conf = last.conf_min => last.next_action = "needs_human"
        /\ last.conf = last.conf_auto => last.next_action = "auto_fix"
        /\ \A c \in Confidences :
               c <= last.conf =>
                   ActionRank(NextActionWith(c, last.conf_min, last.conf_auto)) <=
                       ActionRank(last.next_action)

\* The place of a step in embedding, search, plan, classify, route, notify
\* (Slack, then Jira), persist; 0 for a step that is none of them.
StepRank(step) ==
    CASE step = "embed" -> 1
      [] step = "search" -> 2
      [] step = "plan" -> 3
      [] step = "classify" -> 4
      [] step = "route" -> 5
      [] step = "notify" -> 6
      [] step = "ticket" -> 7
      [] step = "insert_run" -> 8
      [] OTHER -> 0

\* C24: the steps of a request are taken in the order embedding, search,
\* plan, classify, route, notify, persist, each once, and no INSERT comes
\* before an embedding, search or planning step of the request.
C24_StepsInOrder ==
    last.op \in {"run", "ocr_run", "replay"} =>
        \A i, j \in 1..Len(last.out.trace) :
            i < j =>
                /\ (StepRank(last.out.trace[i]) > 0
                    /\ StepRank(last.out.trace[j]) > 0) =>
                       StepRank(last.out.trace[i]) < StepRank(last.out.trace[j])
                /\ last.out.trace[i] \in {"insert_incident", "insert_run"} =>
                       last.out.trace[j] \notin {"embed", "search", "plan"}

(***************************************************************************)
(* app/server.py: a request served while the corpus is ingested            *)
(***************************************************************************)
\* The steps of api_run and ocr_run after the incident is inserted, when the
\* handler's own search reads the corpus cs and the search inside
\* retrieve_and_plan, made later, reads the corpus cs2.
HandleDuring(cs, cs2, s) ==
    Planned(s, hybrid_search(cs, s.e1, s.top_k, _clean_filters(s.filters)),
            retrieve_and_plan(cs2, s.e2, s.top_k, _clean_filters(s.filters), s.p))

\* The corpus after what ingestion may do between the two searches: nothing,
\* or insert_chunk and upsert_embedding of one more chunk.
Ingested(cs) ==
    {cs} \cup
    (IF Len(cs) < MaxChunks
     THEN {Append(cs, [text |-> c.text, metadata |-> c.metadata,
                       embedding |-> {v}]) :
               c \in IngestedChunks, v \in ChunkVectors}
     ELSE {})

\* POST /run, with the corpus cs2 in place from the second search on
api_run_during(s, cs2) ==
    LET out == HandleDuring(chunks, cs2, s)
        incident_id == Len(incidents) + 1
    IN  /\ Len(incidents) < MaxIncidents
        /\ out.stage = "done" => Len(runs) < MaxRuns
        /\ incidents' = insert_incident(incidents, s.text, <<>>)
        /\ runs' = IF out.stage = "done"
                   THEN insert_run(runs, incident_id, out.retrieved_ids, out.plan,
                                   out.final_summary, out.action_status)
                   ELSE runs
        /\ last' = Served("run", s, out,
                          IF out.stage = "done" THEN "ok" ELSE "error",
                          incident_id,
                          IF out.stage = "done" THEN Len(runs) + 1 ELSE 0, 0, <<>>)
        /\ chunks' = cs2
        /\ UNCHANGED lastSearch

\* POST /ocr_run with text in the image, with the corpus cs2 in place from the
\* second search on
ocr_run_during(extracted, s, cs2) ==
    LET out == HandleDuring(chunks, cs2, s)
        incident_id == Len(incidents) + 1
    IN  /\ extracted # <<>>
        /\ Len(incidents) < MaxIncidents
        /\ out.stage = "done" => Len(runs) < MaxRuns
        /\ incidents' = insert_incident(incidents, <<"image:">> \o ImageName,
                                        extracted)
        /\ runs' = IF out.stage = "done"
                   THEN insert_run(runs, incident_id, out.retrieved_ids, out.plan,
                                   out.final_summary, out.action_status)
                   ELSE runs
        /\ last' = Served("ocr_run", s, out,
                          IF out.stage = "done" THEN "ok" ELSE "error",
                          incident_id,
                          IF out.stage = "done" THEN Len(runs) + 1 ELSE 0, 0, <<>>)
        /\ chunks' = cs2
        /\ UNCHANGED lastSearch

\* One request over an empty corpus or a corpus of one embedded chunk
InitDuring ==
    /\ chunks \in {<<>>, SubSeq(SampleCorpus, 1, 1)}
    /\ incidents = <<>>
    /\ runs = <<>>
    /\ last = NoLast
    /\ lastSearch = NoSearch

NextDuring ==
    \/ /\ last = NoLast
       /\ \E s \in RunRequests(SomeAnswer), cs2 \in Ingested(chunks) :
              api_run_during(s, cs2)
    \/ /\ last = NoLast
       /\ \E x \in OcrAnswers, s \in OcrRequests(SomeAnswer),
             cs2 \in Ingested(chunks) :
              ocr_run_during(x, s, cs2)

SpecDuring == InitDuring /\ [][NextDuring]_vars

\* The ids of the previews of a plan, in their order
PreviewIds(plan) == [i \in 1..Len(plan.previews) |-> plan.previews[i].id]

\* C25: the retrieved_ids and the previews stored on a run are the chunk ids,
\* in rank order, of the hits retrieve_and_plan gave the Planner, also when a
\* chunk was ingested between the request's two searches.
C25_RetrievedIdsArePlannerHits ==
    StoredRun =>
        /\ _as_json(runs[last.run_id].retrieved_ids) =
               ChunkIds(last.out.planner_hits)
        /\ PreviewIds(_as_json(runs[last.run_id].plan)) =
               ChunkIds(last.out.planner_hits)

\* A stored run during which a second, embedded chunk came into the corpus
\* that matches the request's query vector.
C25_Witness ==
    /\ StoredRun
    /\ last.op = "run"
    /\ Len(chunks) = 2
    /\ chunks[2].embedding = {0}
    /\ last.answers.e1 = Embedded(0)
    /\ last.answers.e2 = Embedded(0)

\* C26: a run or ocr_run request that ends with an error leaves the incidents
\* and runs tables as they were, and after any request every incident row
\* has a run row.
C26_FailedRequestLeavesStore ==
    [][/\ (last'.op \in {"run", "ocr_run"} /\ last'.result = "error") =>
              (incidents' = incidents /\ runs' = runs)
       /\ last'.op \in {"run", "ocr_run"} =>
              \A i \in 1..Len(incidents') :
                  \E r \in 1..Len(runs') : runs'[r].incident_id = i]_vars

====
